---------------------------- MODULE Spec2Model ----------------------------
(***************************************************************************)
(* FM-Index over a single mutable string (src/FM_Index.py, class FMIndex). *)
(*                                                                         *)
(* Strings are sequences of character code points, compared the way        *)
(* Python compares str values (code point by code point, a proper prefix   *)
(* being smaller).  Positions stored in suffix_array, the search interval  *)
(* l..r and the offsets search returns are 0-based as in the source; the   *)
(* TLA+ sequences holding them are 1-based, so Python's s[k] is s[k+1].    *)
(***************************************************************************)
EXTENDS Integers, Sequences, FiniteSets, TLC

VARIABLES
    self,      \* the FMIndex instance: text, suffix_array, bwt, rank_array, c_table
    call,      \* the last call made on the instance and how it ended
    logical,   \* history: the plain string the caller has built by the same edits
    useLock,   \* concurrent use: do callers hold an external lock around each call
    lock,      \* concurrent use: who holds the external lock
    writer,    \* concurrent use: the thread running insert/delete
    reader,    \* concurrent use: the thread running search
    stamp      \* history: the generation that last assigned each field of self

vars == <<self, call, logical, useLock, lock, writer, reader, stamp>>

-----------------------------------------------------------------------------
(* Bounds of the model and the character set the inputs are drawn from.    *)

MaxLen == 3      \* longest logical (sentinel-free) text
MaxPat == 2      \* longest search pattern
ConcLen == 2     \* longest logical text while two threads share the index
MaxGen == 1      \* edits the writer thread makes while the reader searches

Sentinel == 36   \* '$'

\* '#' (35) sorts below the sentinel, 'a' (97) above it; '$' itself is a
\* character callers can pass like any other.
Alphabet == {35, Sentinel, 97}

Strings(n) == UNION {[1..k -> Alphabet] : k \in 0..n}

Range(s) == {s[k] : k \in 1..Len(s)}

-----------------------------------------------------------------------------
(* Python primitives used by the source.                                   *)

\* str.__lt__
StrLess(a, b) ==
    \E k \in 0..Len(a) :
        /\ k <= Len(b)
        /\ \A j \in 1..k : a[j] = b[j]
        /\ \/ k = Len(a) /\ k < Len(b)
           \/ k < Len(a) /\ k < Len(b) /\ a[k + 1] < b[k + 1]

\* s[i:] for 0 <= i
SliceFrom(s, i) == SubSeq(s, i + 1, Len(s))

\* s[:i] for 0 <= i
SliceTo(s, i) == SubSeq(s, 1, IF i < Len(s) THEN i ELSE Len(s))

\* s[:-1]
DropLast(s) == SubSeq(s, 1, Len(s) - 1)

\* s[k] with Python's rule for negative and out-of-range subscripts
PyGet(s, k) ==
    IF 0 <= k /\ k < Len(s) THEN [ok |-> TRUE, val |-> s[k + 1]]
    ELSE IF k < 0 /\ -Len(s) <= k THEN [ok |-> TRUE, val |-> s[Len(s) + k + 1]]
    ELSE [ok |-> FALSE, val |-> 0]

\* sorted(S) for a set of integers
RECURSIVE SortedSeq(_)
SortedSeq(S) ==
    IF S = {} THEN <<>>
    ELSE LET m == CHOOSE x \in S : \A y \in S : x <= y
         IN <<m>> \o SortedSeq(S \ {m})

\* sorted(q) for a list of integers (equal elements are kept)
RECURSIVE SortedList(_)
SortedList(q) ==
    IF q = <<>> THEN <<>>
    ELSE LET k == CHOOSE k \in 1..Len(q) : \A j \in 1..Len(q) : q[k] <= q[j]
         IN <<q[k]>> \o SortedList(SubSeq(q, 1, k - 1) \o SubSeq(q, k + 1, Len(q)))

\* s.count(ch)
Count(s, ch) == Cardinality({k \in 1..Len(s) : s[k] = ch})

-----------------------------------------------------------------------------
(* Construction pipeline.                                                  *)

\* the (suffix, i) tuples of _build_suffix_array compared as Python tuples
TupleLess(text, i, j) ==
    \/ StrLess(SliceFrom(text, i), SliceFrom(text, j))
    \/ SliceFrom(text, i) = SliceFrom(text, j) /\ i < j

\* _build_suffix_array (faulty variant: the suffixes are never sorted)
build_suffix_array_unsorted(text) == [k \in 1..Len(text) |-> k - 1]

build_suffix_array(text) ==
    LET n == Len(text)
        before(i) == Cardinality({j \in 0..(n - 1) : TupleLess(text, j, i)})
    IN [k \in 1..n |-> CHOOSE i \in 0..(n - 1) : before(i) = k - 1]

build_bwt(text, suffix_array) ==
    [k \in 1..Len(suffix_array) |->
        IF suffix_array[k] # 0 THEN text[suffix_array[k]] ELSE Sentinel]

build_rank_array(bwt) ==
    [ch \in Range(bwt) |->
        [k \in 1..Len(bwt) |-> Cardinality({j \in 1..k : bwt[j] = ch})]]

RECURSIVE c_table_loop(_, _, _, _)
c_table_loop(bwt, sorted_chars, total, c_table) ==
    IF sorted_chars = <<>> THEN c_table
    ELSE LET char == Head(sorted_chars)
         IN c_table_loop(bwt, Tail(sorted_chars), total + Count(bwt, char),
                         c_table @@ (char :> total))

\* _build_c_table (faulty variant: the character's own count is added first)
RECURSIVE c_table_loop_inclusive(_, _, _, _)
c_table_loop_inclusive(bwt, sorted_chars, total, c_table) ==
    IF sorted_chars = <<>> THEN c_table
    ELSE LET char == Head(sorted_chars)
         IN c_table_loop_inclusive(bwt, Tail(sorted_chars),
                                   total + Count(bwt, char),
                                   c_table @@ (char :> total + Count(bwt, char)))

build_c_table_inclusive(bwt) ==
    c_table_loop_inclusive(bwt, SortedSeq(Range(bwt)), 0, <<>>)

build_c_table(bwt) == c_table_loop(bwt, SortedSeq(Range(bwt)), 0, <<>>)

\* the k-th assignment of _rebuild (faulty variant: c_table is never reassigned)
rebuild_step_stale(s, k) ==
    CASE k = 1 -> [s EXCEPT !.suffix_array = build_suffix_array(s.text)]
      [] k = 2 -> [s EXCEPT !.bwt = build_bwt(s.text, s.suffix_array)]
      [] k = 3 -> [s EXCEPT !.rank_array = build_rank_array(s.bwt)]
      [] OTHER -> s

\* the k-th assignment of _rebuild (faulty variant: bwt is assigned before
\* suffix_array, so it is derived from the previous suffix ordering)
rebuild_step_misordered(s, k) ==
    CASE k = 1 -> [s EXCEPT !.bwt = build_bwt(s.text, s.suffix_array)]
      [] k = 2 -> [s EXCEPT !.suffix_array = build_suffix_array(s.text)]
      [] k = 3 -> [s EXCEPT !.rank_array = build_rank_array(s.bwt)]
      [] k = 4 -> [s EXCEPT !.c_table = build_c_table(s.bwt)]
      [] OTHER -> s

\* the k-th assignment of _rebuild, k = 1..4
rebuild_step(s, k) ==
    CASE k = 1 -> [s EXCEPT !.suffix_array = build_suffix_array(s.text)]
      [] k = 2 -> [s EXCEPT !.bwt = build_bwt(s.text, s.suffix_array)]
      [] k = 3 -> [s EXCEPT !.rank_array = build_rank_array(s.bwt)]
      [] k = 4 -> [s EXCEPT !.c_table = build_c_table(s.bwt)]
      [] OTHER -> s

rebuild(s) == rebuild_step(rebuild_step(rebuild_step(rebuild_step(s, 1), 2), 3), 4)

\* FMIndex(text) raises ValueError
construct_fails(text) == text = <<>>

\* FMIndex(text) for a non-empty text
construct(text) ==
    LET t  == text \o <<Sentinel>>
        sa == build_suffix_array(t)
        b  == build_bwt(t, sa)
    IN [text |-> t, suffix_array |-> sa, bwt |-> b,
        rank_array |-> build_rank_array(b), c_table |-> build_c_table(b)]


-----------------------------------------------------------------------------
(* search.                                                                 *)

\* rank_array is a defaultdict(list): a missing key reads as the empty list
RankList(rank_array, char) ==
    IF char \in DOMAIN rank_array THEN rank_array[char] ELSE <<>>

\* the initial search range (faulty variant: r starts one past the end)
search_range_wide(s) == [l |-> 0, r |-> Len(s.bwt)]

\* l, r = 0, len(self.bwt) - 1
search_range(s) == [l |-> 0, r |-> Len(s.bwt) - 1]

\* one narrowing step (faulty variant: r is not decremented)
narrow_inclusive(s, char, l, r) ==
    LET lo == IF l > 0 THEN PyGet(RankList(s.rank_array, char), l - 1)
              ELSE [ok |-> TRUE, val |-> 0]
        hi == PyGet(RankList(s.rank_array, char), r)
    IN IF lo.ok /\ hi.ok
       THEN [err |-> "none", l |-> s.c_table[char] + lo.val,
             r |-> s.c_table[char] + hi.val]
       ELSE [err |-> "IndexError", l |-> l, r |-> r]

\* one narrowing step: the two assignments to l and r in the loop of search
narrow(s, char, l, r) ==
    LET lo == IF l > 0 THEN PyGet(RankList(s.rank_array, char), l - 1)
              ELSE [ok |-> TRUE, val |-> 0]
        hi == PyGet(RankList(s.rank_array, char), r)
    IN IF lo.ok /\ hi.ok
       THEN [err |-> "none", l |-> s.c_table[char] + lo.val,
             r |-> s.c_table[char] + hi.val - 1]
       ELSE [err |-> "IndexError", l |-> l, r |-> r]

\* sorted([self.suffix_array[i] for i in range(l, r + 1)])
collect(s, l, r, trace) ==
    IF \A i \in l..r : PyGet(s.suffix_array, i).ok
    THEN [err |-> "none", trace |-> trace,
          result |-> SortedList([k \in 1..(r - l + 1) |->
                                    PyGet(s.suffix_array, l + k - 1).val])]
    ELSE [err |-> "IndexError", trace |-> trace, result |-> <<>>]

\* the loop of search with i characters of the pattern left; trace collects
\* the interval <<l, r>> held at the start of every iteration
RECURSIVE search_loop(_, _, _, _, _, _)
search_loop(s, pattern, i, l, r, trace) ==
    IF i = 0 THEN collect(s, l, r, trace)
    ELSE LET char == pattern[i]
             tr   == Append(trace, <<l, r>>)
         IN IF char \notin DOMAIN s.c_table
            THEN [err |-> "none", trace |-> tr, result |-> <<>>]
            ELSE LET nw == narrow(s, char, l, r)
                 IN IF nw.err # "none"
                    THEN [err |-> nw.err, trace |-> tr, result |-> <<>>]
                    ELSE IF nw.l > nw.r
                    THEN [err |-> "none", trace |-> tr, result |-> <<>>]
                    ELSE search_loop(s, pattern, i - 1, nw.l, nw.r, tr)

search(s, pattern) ==
    IF pattern = <<>>
    THEN [err |-> "ValueError", trace |-> <<>>, result |-> <<>>]
    ELSE search_loop(s, pattern, Len(pattern),
                     search_range(s).l, search_range(s).r, <<>>)

-----------------------------------------------------------------------------
(* insert and delete.                                                      *)

\* self.text[:-1] + char + "$"
insert_text(text, char) == DropLast(text) \o char \o <<Sentinel>>

\* self.text[:index] + self.text[index + 1:]
delete_text(text, index) == SliceTo(text, index) \o SliceFrom(text, index + 1)

\* the range check of delete (faulty variant: the sentinel's position passes)
delete_in_range_inclusive(text, index) == 0 <= index /\ index <= Len(text) - 1

\* 0 <= index < len(self.text) - 1
delete_in_range(text, index) == 0 <= index /\ index < Len(text) - 1

insert(s, char) ==
    IF Len(char) # 1 THEN [err |-> "ValueError", self |-> s]
    ELSE [err |-> "none",
          self |-> rebuild([s EXCEPT !.text = insert_text(s.text, char)])]

\* delete (faulty variant: the text is assigned before the index is checked)
delete_unchecked(s, index) ==
    LET edited == IF 0 <= index
                  THEN [s EXCEPT !.text = delete_text(s.text, index)] ELSE s
    IN IF ~delete_in_range(s.text, index)
       THEN [err |-> "ValueError", self |-> edited]
       ELSE [err |-> "none", self |-> rebuild(edited)]

delete(s, index) ==
    IF ~delete_in_range(s.text, index) THEN [err |-> "ValueError", self |-> s]
    ELSE [err |-> "none",
          self |-> rebuild([s EXCEPT !.text = delete_text(s.text, index)])]

-----------------------------------------------------------------------------
(* Sequential use: every call runs to completion before the next starts.   *)

IdleWriter == [pc |-> "idle", k |-> 0, gen |-> 0]
IdleReader == [pc |-> "idle", pattern |-> <<>>, i |-> 0, l |-> 0, r |-> 0,
               j |-> 0, got |-> <<>>, seen |-> {}, err |-> "none",
               result |-> <<>>]
NoStamp    == [text |-> 0, suffix_array |-> 0, bwt |-> 0, rank_array |-> 0,
               c_table |-> 0]

\* the edit the caller applies to its own plain copy of the text
PlainDelete(t, index) ==
    [k \in 1..(Len(t) - 1) |-> IF k <= index THEN t[k] ELSE t[k + 1]]

Payloads == Strings(1) \cup {<<97, 97>>}
Indexes  == -1..(MaxLen + 1)

Init ==
    /\ \E text \in Strings(MaxLen) :
          /\ ~construct_fails(text)
          /\ self = construct(text)
          /\ logical = text
          /\ call = [op |-> "construct", arg |-> text, err |-> "none",
                     result |-> <<>>, trace |-> <<>>]
    /\ useLock = FALSE
    /\ lock = "free"
    /\ writer = IdleWriter
    /\ reader = IdleReader
    /\ stamp = NoStamp

Search(pattern) ==
    LET out == search(self, pattern)
    IN /\ call' = [op |-> "search", arg |-> pattern, err |-> out.err,
                   result |-> out.result, trace |-> out.trace]
       /\ UNCHANGED <<self, logical, useLock, lock, writer, reader, stamp>>

Insert(char) ==
    LET out == insert(self, char)
    IN /\ out.err = "none" => Len(logical) < MaxLen
       /\ self' = out.self
       /\ logical' = IF out.err = "none" THEN logical \o char ELSE logical
       /\ call' = [op |-> "insert", arg |-> char, err |-> out.err,
                   result |-> <<>>, trace |-> <<>>]
       /\ UNCHANGED <<useLock, lock, writer, reader, stamp>>

Delete(index) ==
    LET out == delete(self, index)
    IN /\ self' = out.self
       /\ logical' = IF out.err = "none" THEN PlainDelete(logical, index)
                     ELSE logical
       /\ call' = [op |-> "delete", arg |-> <<index>>, err |-> out.err,
                   result |-> <<>>, trace |-> <<>>]
       /\ UNCHANGED <<useLock, lock, writer, reader, stamp>>

Next ==
    \/ \E pattern \in Strings(MaxPat) : Search(pattern)
    \/ \E char \in Payloads : Insert(char)
    \/ \E index \in Indexes : Delete(index)

Spec == Init /\ [][Next]_vars

-----------------------------------------------------------------------------
(* Properties of sequential use.                                           *)

\* the offsets at which pattern p occurs in the plain text t (0-based)
Occurrences(t, p) ==
    {i \in 0..(Len(t) - Len(p)) : SubSeq(t, i + 1, i + Len(p)) = p}

StrictlyAscending(q) == \A i \in 1..(Len(q) - 1) : q[i] < q[i + 1]

SearchReturned == call.op = "search" /\ call.arg # <<>>

\* C1: on a non-empty text T without the sentinel, searching a non-empty
\* substring P of T returns a non-empty, strictly ascending sequence holding
\* exactly the offsets at which P occurs in T, overlapping ones included.
C1_SearchSoundComplete ==
    (/\ SearchReturned
     /\ logical # <<>>
     /\ Sentinel \notin Range(logical)
     /\ Occurrences(logical, call.arg) # {})
    => /\ call.err = "none"
       /\ call.result # <<>>
       /\ StrictlyAscending(call.result)
       /\ Range(call.result) = Occurrences(logical, call.arg)

\* a search that found two overlapping occurrences of a two-character pattern
C1_Witness ==
    /\ SearchReturned
    /\ Sentinel \notin Range(logical)
    /\ Len(call.arg) = 2
    /\ \E i \in 1..(Len(call.result) - 1) : call.result[i + 1] = call.result[i] + 1
    /\ Range(call.result) = Occurrences(logical, call.arg)

\* C2 (as claimed): for every non-empty text T and non-empty pattern P over
\* the full character set, if P does not occur in T then search(P) returns
\* the empty sequence.
C2_AbsentPatternEmpty ==
    (/\ SearchReturned
     /\ logical # <<>>
     /\ Occurrences(logical, call.arg) = {})
    => call.err = "none" /\ call.result = <<>>

\* C3 (as claimed): the stored text holds exactly one sentinel, at its end.
C3_OneSentinelAtEnd ==
    /\ Count(self.text, Sentinel) = 1
    /\ self.text[Len(self.text)] = Sentinel

\* C4 (as claimed): after any successful edits the index is identical to the
\* one a fresh construct(T') yields for the plain text T' with the same edits.
C4_EqualsFreshConstruct ==
    /\ ~construct_fails(logical)
    /\ self = construct(logical)

\* C4 (amended): whenever the edited plain text T' is non-empty the index is
\* identical to a fresh construct(T'); when the edits have emptied T',
\* construct(T') fails and the index holds the structures of the text "$".
C4_EqualsFreshConstructIfNonEmpty ==
    /\ ~construct_fails(logical) => self = construct(logical)
    /\ construct_fails(logical) =>
          self = [text |-> <<Sentinel>>, suffix_array |-> <<0>>,
                  bwt |-> <<Sentinel>>, rank_array |-> (Sentinel :> <<1>>),
                  c_table |-> (Sentinel :> 0)]

\* an index rebuilt by an accepted delete of a character that was not the last
C4_Witness ==
    /\ call.op = "delete" /\ call.err = "none"
    /\ Len(logical) >= 2
    /\ call.arg[1] < Len(logical)
    /\ self = construct(logical)

\* C5: a call that fails with InvalidArgument (ValueError) leaves text,
\* suffix ordering, BWT, Rank Table and C-Table unchanged.
C5_FailedCallChangesNothing ==
    [][call'.err = "ValueError" => self' = self]_vars

\* a delete that was refused for the sentinel's own position
C5_Witness ==
    /\ call.op = "delete" /\ call.err = "ValueError"
    /\ call.arg[1] = Len(self.text) - 1
    /\ Len(self.text) >= 2

\* C6 (as claimed): delete(index) fails whenever index is outside
\* [0, length-1), length being the length of the sentinel-free text.
C6_DeleteRangeLogicalMinusOne ==
    [][(/\ call'.op = "delete"
        /\ ~(0 <= call'.arg[1] /\ call'.arg[1] < Len(logical) - 1))
       => call'.err = "ValueError"]_vars

\* C6 (amended): delete(index) fails exactly when index is outside [0, L),
\* L being the length of the sentinel-free text (so [0, n-1) for the stored
\* text of length n); an accepted delete removes exactly the character at
\* that index and leaves the final sentinel in place.
C6_DeleteRange ==
    [][call'.op = "delete" =>
        LET index == call'.arg[1]
            L     == Len(self.text) - 1
        IN IF 0 <= index /\ index < L
           THEN /\ call'.err = "none"
                /\ Len(self'.text) = L
                /\ \A k \in 1..(L - 1) :
                      self'.text[k] = self.text[IF k <= index THEN k ELSE k + 1]
                /\ self'.text[L] = self.text[L + 1]
           ELSE call'.err = "ValueError" /\ self' = self]_vars

\* an accepted delete of the last character before the sentinel
C6_Witness ==
    /\ call.op = "delete" /\ call.err = "none"
    /\ call.arg[1] = Len(logical)
    /\ Len(logical) >= 1

\* C7: the suffix ordering is a permutation of 0..n-1 listing the suffixes in
\* strictly increasing order, and len(BWT) = len(SuffixOrdering) = n.
C7_SuffixOrdering ==
    LET n == Len(self.text)
    IN /\ Len(self.suffix_array) = n
       /\ Len(self.bwt) = n
       /\ Range(self.suffix_array) = 0..(n - 1)
       /\ \A k \in 1..(n - 1) :
             StrLess(SliceFrom(self.text, self.suffix_array[k]),
                     SliceFrom(self.text, self.suffix_array[k + 1]))

\* an index rebuilt by an edit whose suffix ordering is not the identity
C7_Witness ==
    /\ call.op \in {"insert", "delete"} /\ call.err = "none"
    /\ Len(self.text) >= 3
    /\ self.suffix_array[1] # 0
    /\ \E k \in 1..Len(self.text) : self.suffix_array[k] # Len(self.text) - k

RECURSIVE SumOver(_, _)
SumOver(f, D) ==
    IF D = {} THEN 0
    ELSE LET d == CHOOSE x \in D : TRUE IN f[d] + SumOver(f, D \ {d})

\* C8 (as claimed): the sum of all C-Table entries plus the number of
\* character occurrences in the BWT equals n.
C8_CTableSumPlusOccurrences ==
    SumOver(self.c_table, DOMAIN self.c_table) + Len(self.bwt) = Len(self.text)

\* C8 (amended): the C-Table entry of the largest character plus that
\* character's occurrences in the BWT equals n.
C8_CTableLastEntry ==
    LET chars == DOMAIN self.c_table
        top   == CHOOSE x \in chars : \A y \in chars : y <= x
    IN self.c_table[top] + Count(self.bwt, top) = Len(self.text)

\* a C-Table with three characters, rebuilt by an edit
C8_Witness ==
    /\ call.op \in {"insert", "delete"} /\ call.err = "none"
    /\ Cardinality(DOMAIN self.c_table) = 3
    /\ Range(self.bwt) = DOMAIN self.c_table

\* C10: a search with a non-empty pattern holds 0 <= l <= r <= n-1 at the
\* start of every loop iteration, never fails with an index or key error,
\* and makes no more iterations than the pattern has characters.
C10_SearchInBounds ==
    SearchReturned =>
        /\ call.err = "none"
        /\ Len(call.trace) <= Len(call.arg)
        /\ \A k \in 1..Len(call.trace) :
              /\ 0 <= call.trace[k][1]
              /\ call.trace[k][1] <= call.trace[k][2]
              /\ call.trace[k][2] <= Len(self.text) - 1
        /\ \A k \in 1..Len(call.result) :
              0 <= call.result[k] /\ call.result[k] <= Len(self.text) - 1

\* a two-step search on an index whose logical text was emptied by delete
C10_Witness ==
    /\ SearchReturned
    /\ logical = <<>>
    /\ Len(call.trace) = 2
    /\ call.result # <<>>

-----------------------------------------------------------------------------
(* Concurrent use: one thread edits while another searches.  The threads  *)
(* are CPython threads: the interpreter hands the GIL over after a call    *)
(* returns and at the backward jump that closes a loop iteration, so a     *)
(* step of a thread is the code between two such points.  insert and       *)
(* delete run as the separate assignments of the source (self.text, then   *)
(* the four assignments of _rebuild, each after a call).  search reads     *)
(* len(self.bwt), then runs one loop iteration per step, then reads        *)
(* self.suffix_array[i] once per step: the list comprehension of its last  *)
(* line loads the attribute anew for every i.                              *)
(* With useLock every call holds one external exclusive lock from its      *)
(* first step to its return; without it the steps interleave freely.       *)

Fields == <<"suffix_array", "bwt", "rank_array", "c_table">>

\* the external lock is free for a call to start (always, when none is used)
CanEnter == useLock => lock = "free"

InitConc ==
    /\ \E text \in Strings(ConcLen) :
          /\ ~construct_fails(text)
          /\ self = construct(text)
          /\ logical = text
          /\ call = [op |-> "construct", arg |-> text, err |-> "none",
                     result |-> <<>>, trace |-> <<>>]
    /\ useLock \in BOOLEAN
    /\ lock = "free"
    /\ writer = IdleWriter
    /\ reader = IdleReader
    /\ stamp = NoStamp

\* the writer enters insert or delete with an accepted argument and assigns
\* self.text
WriterEdit(text, plain) ==
    /\ writer.pc = "idle"
    /\ writer.gen < MaxGen
    /\ CanEnter
    /\ lock' = IF useLock THEN "writer" ELSE lock
    /\ self' = [self EXCEPT !.text = text]
    /\ logical' = plain
    /\ stamp' = [stamp EXCEPT !.text = writer.gen + 1]
    /\ writer' = [pc |-> "rebuild", k |-> 1, gen |-> writer.gen + 1]
    /\ UNCHANGED <<call, useLock, reader>>

WriterInsert(char) ==
    /\ Len(char) = 1
    /\ Len(logical) < ConcLen
    /\ WriterEdit(insert_text(self.text, char), logical \o char)

WriterDelete(index) ==
    /\ delete_in_range(self.text, index)
    /\ WriterEdit(delete_text(self.text, index), PlainDelete(logical, index))

\* the writer performs the next assignment of _rebuild; the call returns
\* after the fourth
WriterRebuild ==
    /\ writer.pc = "rebuild"
    /\ self' = rebuild_step(self, writer.k)
    /\ stamp' = [stamp EXCEPT ![Fields[writer.k]] = writer.gen]
    /\ writer' = IF writer.k = 4 THEN [writer EXCEPT !.pc = "idle", !.k = 0]
                 ELSE [writer EXCEPT !.k = writer.k + 1]
    /\ lock' = IF writer.k = 4 /\ useLock THEN "free" ELSE lock
    /\ UNCHANGED <<call, logical, useLock, reader>>

\* the reader enters search with a non-empty pattern and reads len(self.bwt)
ReaderBegin(pattern) ==
    /\ reader.pc = "idle"
    /\ pattern # <<>>
    /\ CanEnter
    /\ lock' = IF useLock THEN "reader" ELSE lock
    /\ reader' = [pc |-> "loop", pattern |-> pattern, i |-> Len(pattern),
                  l |-> search_range(self).l, r |-> search_range(self).r,
                  j |-> 0, got |-> <<>>,
                  seen |-> {stamp.bwt}, err |-> "none", result |-> <<>>]
    /\ UNCHANGED <<self, call, logical, useLock, writer, stamp>>

\* one iteration of the loop of search (no call and no backward jump lies
\* between its reads of c_table and rank_array); reading a character
\* rank_array lacks makes the defaultdict store an empty list for it
ReaderStep ==
    /\ reader.pc = "loop"
    /\ reader.i > 0
    /\ LET char == reader.pattern[reader.i]
           nw   == narrow(self, char, reader.l, reader.r)
       IN IF char \notin DOMAIN self.c_table
          THEN /\ reader' = [reader EXCEPT !.pc = "done",
                                !.seen = @ \cup {stamp.c_table}]
               /\ self' = self
          ELSE /\ reader' =
                    [reader EXCEPT
                       !.seen = @ \cup {stamp.c_table, stamp.rank_array},
                       !.pc = IF nw.err # "none" \/ nw.l > nw.r
                              THEN "done" ELSE "loop",
                       !.err = nw.err,
                       !.l = nw.l, !.r = nw.r, !.j = nw.l, !.i = @ - 1]
               /\ self' = IF char \in DOMAIN self.rank_array THEN self
                          ELSE [self EXCEPT
                                   !.rank_array = @ @@ (char :> <<>>)]
    /\ UNCHANGED <<call, logical, useLock, lock, writer, stamp>>

\* the loop is over: the list comprehension reads self.suffix_array[j] for
\* the next j of range(l, r + 1); after the last one the list is sorted
ReaderCollect ==
    /\ reader.pc = "loop"
    /\ reader.i = 0
    /\ LET item == PyGet(self.suffix_array, reader.j)
       IN reader' =
            IF ~item.ok
            THEN [reader EXCEPT !.pc = "done", !.err = "IndexError",
                     !.seen = @ \cup {stamp.suffix_array}]
            ELSE IF reader.j = reader.r
            THEN [reader EXCEPT !.pc = "done",
                     !.got = Append(@, item.val),
                     !.result = SortedList(Append(reader.got, item.val)),
                     !.seen = @ \cup {stamp.suffix_array}]
            ELSE [reader EXCEPT !.j = @ + 1,
                     !.got = Append(@, item.val),
                     !.seen = @ \cup {stamp.suffix_array}]
    /\ UNCHANGED <<self, call, logical, useLock, lock, writer, stamp>>

\* search returns to its caller, which takes the result with it
ReaderReturn ==
    /\ reader.pc = "done"
    /\ reader' = IdleReader
    /\ lock' = IF useLock THEN "free" ELSE lock
    /\ UNCHANGED <<self, call, logical, useLock, writer, stamp>>

NextConc ==
    \/ \E char \in Payloads : WriterInsert(char)
    \/ \E index \in Indexes : WriterDelete(index)
    \/ WriterRebuild
    \/ \E pattern \in Strings(MaxPat) : ReaderBegin(pattern)
    \/ ReaderStep
    \/ ReaderCollect
    \/ ReaderReturn

SpecConc == InitConc /\ [][NextConc]_vars

\* all four derived structures are those of the stored text
SingleGeneration == self = rebuild(self)

\* C9: when every call holds the exclusive lock for its full duration, a
\* search observes structures of one generation only: while it runs the
\* index is that of the stored text, every field it read was assigned by the
\* same generation, and it returns what search returns on that index.
\* (Without the lock a search can observe a torn index: C9_TornObserved is
\* reachable, and C9 is violated once CanEnter no longer waits for the lock.)
C9_LockedSearchSeesOneGeneration ==
    (useLock /\ reader.pc \in {"loop", "done"}) =>
        /\ SingleGeneration
        /\ Cardinality(reader.seen) = 1
        /\ reader.pc = "done" =>
              /\ reader.err = search(self, reader.pattern).err
              /\ reader.result = search(self, reader.pattern).result

\* a locked search that completed on an index the writer had rebuilt
C9_Witness ==
    /\ useLock
    /\ reader.pc = "done"
    /\ reader.result # <<>>
    /\ writer.gen >= 1
    /\ reader.seen = {writer.gen}

\* an unlocked search that read fields assigned by different generations
C9_TornObserved ==
    /\ ~useLock
    /\ reader.pc = "done"
    /\ Cardinality(reader.seen) > 1

\* an unlocked search that returned the same offset twice: suffix_array was
\* reassigned between two element reads of its result
C9_TornDuplicate ==
    /\ ~useLock
    /\ reader.pc = "done"
    /\ reader.err = "none"
    /\ \E k \in 1..(Len(reader.result) - 1) :
          reader.result[k] = reader.result[k + 1]

\* an unlocked search that failed with IndexError on a torn index
C9_TornIndexError ==
    /\ ~useLock
    /\ reader.pc = "done"
    /\ reader.err = "IndexError"

=============================================================================
